---- MODULE Spec2Model ----
(***************************************************************************)
(* Model of the trace-variability program: the Log data model (log.py) and *)
(* the three variability metrics (variability.py).                         *)
(*                                                                         *)
(* A Python dict is an insertion-ordered mapping (Python 3.7, the version  *)
(* main.py names), modelled as a sequence of [key, value] records in       *)
(* insertion order.  A Python list is a sequence.  Python indices are      *)
(* 0-based, TLA+ sequences 1-based: the conversions are explicit.          *)
(* A float result is modelled exactly: a quotient of two integers as the   *)
(* pair (numerator, denominator), the entropy as its list of terms and its *)
(* exact sign.                                                             *)
(***************************************************************************)
EXTENDS Integers, Sequences, FiniteSets, TLC

\* Event-type names an input case may carry ("concept:name").
Names == {"a", "b", "c"}

\* Bounds of the input of Log.load: number of cases and total number of events.
MaxCases == 3
MaxEvents == 4

VARIABLES
    dictionary,   \* Log.dictionary: insertion-ordered name -> count
    trace_list,   \* Log.trace_list: list of Trace (event_list, frequency)
    events_list,  \* local events_list of Log.load for the case being read
    input_log,    \* the cases of input_log that load has consumed completely
    case,         \* the event names of the current case consumed so far
    pc,           \* "load" while Log.load runs, "loaded" after it returned
    ret,          \* the last call made on the loaded Log and its outcome
    lev_t1,       \* arguments and result of a direct _levenshtein_distance call
    lev_t2,
    lev_ret

vars == <<dictionary, trace_list, events_list, input_log, case, pc, ret,
          lev_t1, lev_t2, lev_ret>>

logVars == <<dictionary, trace_list, events_list, input_log, case>>
levVars == <<lev_t1, lev_t2, lev_ret>>

----------------------------------------------------------------------------
(* Generic helpers *)

Min(x, y) == IF x <= y THEN x ELSE y
Min3(x, y, z) == Min(x, Min(y, z))

RECURSIVE Pow(_, _)
Pow(b, e) == IF e = 0 THEN 1 ELSE b * Pow(b, e - 1)

\* All sequences over S of length at most n.
SeqsUpTo(S, n) == UNION {[1..k -> S] : k \in 0..n}

----------------------------------------------------------------------------
(* log.py: Event, Trace *)

\* Event.__init__
Event(event_code, event_name) ==
    [event_code |-> event_code, event_name |-> event_name]

\* Event.__eq__: equal codes and equal names.
EventEq(e1, e2) ==
    e1.event_code = e2.event_code /\ e1.event_name = e2.event_name

\* list.__eq__ on two lists of Event: same length, elementwise Event.__eq__.
EventListEq(l1, l2) ==
    /\ Len(l1) = Len(l2)
    /\ \A i \in 1..Len(l1) : EventEq(l1[i], l2[i])

\* Trace.__init__: frequency starts at 1.
Trace(event_list) == [event_list |-> event_list, frequency |-> 1]

\* Trace.length
TraceLength(t) == Len(t.event_list)

\* Trace.__eq__: the event lists are equal, the frequency is ignored.
TraceEq(t1, t2) == EventListEq(t1.event_list, t2.event_list)

\* Mutant of get_all_prefixes: range(length + 1), the full trace included.
get_all_prefixes_WithFull(t) ==
    [k \in 1..(TraceLength(t) + 1) |-> SubSeq(t.event_list, 1, k - 1)]

\* Trace.get_all_prefixes: event_list[0:i] for i in range(length).
get_all_prefixes(t) ==
    [k \in 1..TraceLength(t) |-> SubSeq(t.event_list, 1, k - 1)]

\* Trace.contains_prefix: the early return on a longer prefix, then the
\* elementwise loop with Event.__ne__.
contains_prefix(t, prefix) ==
    IF Len(prefix) > TraceLength(t)
    THEN FALSE
    ELSE \A i \in 1..Len(prefix) : EventEq(prefix[i], t.event_list[i])

----------------------------------------------------------------------------
(* log.py: Log *)

\* Log.get_keys_list: the keys in insertion order.
get_keys_list(d) == [i \in 1..Len(d) |-> d[i].key]

\* key_name in self.dictionary.keys()
HasKey(d, key) == \E i \in 1..Len(d) : d[i].key = key

\* list.index: the 0-based position of the first element equal to x.
ListIndex(l, x) ==
    (CHOOSE i \in 1..Len(l) : l[i] = x /\ \A j \in 1..(i - 1) : l[j] # x) - 1

\* Mutant of get_event: the code is the value stored under the name (its
\* count) rather than its position among the keys.
get_event_ByCount(d, event_name) ==
    IF HasKey(d, event_name)
    THEN [outcome |-> "value",
          val |-> Event(d[CHOOSE i \in 1..Len(d) : d[i].key = event_name].value,
                        event_name)]
    ELSE [outcome |-> "ValueError", val |-> "none"]

\* Mutant of get_event: a name that is no key gets the next code instead of
\* the lookup failing.
get_event_MissGivesNext(d, event_name) ==
    IF HasKey(d, event_name)
    THEN [outcome |-> "value",
          val |-> Event(ListIndex(get_keys_list(d), event_name), event_name)]
    ELSE [outcome |-> "value", val |-> Event(Len(d), event_name)]

\* Log.get_event: the position of the name among the keys; list.index raises
\* ValueError when the name is not a key.  The dictionary is only read.
get_event(d, event_name) ==
    IF HasKey(d, event_name)
    THEN [outcome |-> "value",
          val |-> Event(ListIndex(get_keys_list(d), event_name), event_name)]
    ELSE [outcome |-> "ValueError", val |-> "none"]

\* Log.load, lines 236-237: a name that is no key yet is added with count 0
\* (a new key goes to the end of an insertion-ordered dict).
RegisterKey(d, key_name) ==
    IF ~HasKey(d, key_name)
    THEN Append(d, [key |-> key_name, value |-> 0])
    ELSE d

\* Log.load, line 239: self.dictionary[key_name] += 1.
CountKey(d, key_name) ==
    [i \in 1..Len(d) |->
        IF d[i].key = key_name THEN [d[i] EXCEPT !.value = @ + 1] ELSE d[i]]

\* Mutant of get_trace: the comparison never succeeds, None is returned.
get_trace_NeverFound(tl, event_list) == 0

\* Mutant of get_trace: only the most recently stored trace is compared.
get_trace_LastOnly(tl, event_list) ==
    IF Len(tl) > 0 /\ EventListEq(tl[Len(tl)].event_list, event_list)
    THEN Len(tl)
    ELSE 0

\* Log.get_trace: the first stored trace whose event list equals event_list,
\* as its 1-based position; 0 stands for None.
get_trace(tl, event_list) ==
    IF \E i \in 1..Len(tl) : EventListEq(tl[i].event_list, event_list)
    THEN CHOOSE i \in 1..Len(tl) :
            /\ EventListEq(tl[i].event_list, event_list)
            /\ \A j \in 1..(i - 1) : ~EventListEq(tl[j].event_list, event_list)
    ELSE 0

\* Mutant of IncrementFrequency: the repeated case is not counted.
IncrementFrequency_Skip(tl, i) == tl

\* Log.load, line 246: saved_trace.frequency += 1 on the stored Trace object.
IncrementFrequency(tl, i) == [tl EXCEPT ![i].frequency = @ + 1]

\* Log.load, lines 242-246: the end of one case.
StoreTrace(tl, event_list) ==
    LET saved_trace == get_trace(tl, event_list)
    IN  IF saved_trace = 0
        THEN Append(tl, Trace(event_list))
        ELSE IncrementFrequency(tl, saved_trace)

\* Log.size: the loop adding up the frequencies.
RECURSIVE SizeLoop(_, _, _)
SizeLoop(tl, i, total_size) ==
    IF i > Len(tl) THEN total_size
    ELSE SizeLoop(tl, i + 1, total_size + tl[i].frequency)

size(tl) == SizeLoop(tl, 1, 0)

\* Log.load, lines 234-241: one event of the current case.  The name is
\* registered and counted, then get_event looks its code up.
LoadEventStep(d, el, key_name) ==
    LET d2 == CountKey(RegisterKey(d, key_name), key_name)
    IN  [dictionary |-> d2,
         events_list |-> Append(el, get_event(d2, key_name).val)]

\* Log.load, lines 231-246: one whole case (a sequence of names) read into
\* the log L = [dictionary, trace_list].
RECURSIVE LoadCaseLoop(_, _, _, _)
LoadCaseLoop(L, el, names, i) ==
    IF i > Len(names)
    THEN [dictionary |-> L.dictionary,
          trace_list |-> StoreTrace(L.trace_list, el)]
    ELSE LET s == LoadEventStep(L.dictionary, el, names[i])
         IN  LoadCaseLoop([L EXCEPT !.dictionary = s.dictionary],
                          s.events_list, names, i + 1)

\* Log.__init__ followed by Log.load on a whole input: the loop over cases.
RECURSIVE LoadLoop(_, _, _)
LoadLoop(L, cases, i) ==
    IF i > Len(cases) THEN L
    ELSE LoadLoop(LoadCaseLoop(L, <<>>, cases[i], 1), cases, i + 1)

load(cases) == LoadLoop([dictionary |-> <<>>, trace_list |-> <<>>], cases, 1)

----------------------------------------------------------------------------
(* variability.py: _levenshtein_distance *)

\* Mutant of LevCell: the minimum leaves out the cell to the left,
\* distances_[-1].
LevCell_NoLeft(c1, c2, diag, up, left) ==
    IF EventEq(c1, c2) THEN diag ELSE 1 + Min(diag, up)

\* Lines 63-66: one cell of the new row, from distances[i1] (diag),
\* distances[i1 + 1] (up) and distances_[-1] (left).
LevCell(c1, c2, diag, up, left) ==
    IF EventEq(c1, c2) THEN diag ELSE 1 + Min3(diag, up, left)

\* Lines 62-66: the inner loop over t1's events.  i1 is the 1-based position
\* (Python's i1 + 1), so Python's distances[i1] is distances[i1] here and
\* Python's distances[i1 + 1] is distances[i1 + 1].
RECURSIVE LevInner(_, _, _, _, _)
LevInner(l1, c2, distances, distances_, i1) ==
    IF i1 > Len(l1) THEN distances_
    ELSE LET c1 == l1[i1]
             d  == LevCell(c1, c2, distances[i1], distances[i1 + 1],
                           distances_[Len(distances_)])
         IN  LevInner(l1, c2, distances, Append(distances_, d), i1 + 1)

\* Lines 60-67: the outer loop over t2's events; the row starts as [i2 + 1]
\* (Python's 0-based i2), which is the 1-based position here.
RECURSIVE LevOuter(_, _, _, _)
LevOuter(l1, l2, distances, i2) ==
    IF i2 > Len(l2) THEN distances
    ELSE LevOuter(l1, l2, LevInner(l1, l2[i2], distances, <<i2>>, 1), i2 + 1)

\* Lines 56-68: the swap that makes t1 the shorter trace, the first row
\* range(t1.length + 1), the loops, and the last cell of the last row.
levenshtein_distance(t1, t2) ==
    LET s1 == IF TraceLength(t1) > TraceLength(t2) THEN t2 ELSE t1
        s2 == IF TraceLength(t1) > TraceLength(t2) THEN t1 ELSE t2
        row0 == [k \in 1..(TraceLength(s1) + 1) |-> k - 1]
        last == LevOuter(s1.event_list, s2.event_list, row0, 1)
    IN  last[Len(last)]

----------------------------------------------------------------------------
(* variability.py: compute_edit_distance_variability *)

\* Mutant of EditTerm: the distance is not weighted by the frequencies.
EditTerm_Unweighted(trace_1, trace_2) ==
    levenshtein_distance(trace_1, trace_2)

\* Line 38: one weighted distance.
EditTerm(trace_1, trace_2) ==
    levenshtein_distance(trace_1, trace_2)
        * trace_1.frequency * trace_2.frequency

\* Lines 35-39: the loop over all stored traces, trace_1 being traces[0];
\* trace_1 != trace_2 is the negation of Trace.__eq__.
RECURSIVE EditLoop(_, _, _, _)
EditLoop(traces, i, distance, number_of_comparisons) ==
    IF i > Len(traces)
    THEN [distance |-> distance,
          number_of_comparisons |-> number_of_comparisons]
    ELSE IF ~TraceEq(traces[1], traces[i])
         THEN EditLoop(traces, i + 1,
                       distance + EditTerm(traces[1], traces[i]),
                       number_of_comparisons + 1)
         ELSE EditLoop(traces, i + 1, distance, number_of_comparisons)

\* Lines 27-42.  traces[0] raises IndexError on an empty list; the final
\* division raises ZeroDivisionError when nothing was compared.  The float
\* returned is distance / number_of_comparisons, kept as the two integers.
compute_edit_distance_variability(traces) ==
    IF Len(traces) = 0
    THEN [outcome |-> "IndexError", distance |-> 0,
          number_of_comparisons |-> 0]
    ELSE LET r == EditLoop(traces, 1, 0, 0)
         IN  IF r.number_of_comparisons = 0
             THEN [outcome |-> "ZeroDivisionError", distance |-> r.distance,
                   number_of_comparisons |-> 0]
             ELSE [outcome |-> "value", distance |-> r.distance,
                   number_of_comparisons |-> r.number_of_comparisons]

----------------------------------------------------------------------------
(* variability.py: compute_variant_variability *)

compute_variant_variability(traces) == Len(traces)

----------------------------------------------------------------------------
(* variability.py: compute_my_variability *)

\* prefix not in prefixes: list membership with list.__eq__ on Event lists.
InPrefixes(prefix, prefixes) ==
    \E j \in 1..Len(prefixes) : EventListEq(prefixes[j], prefix)

\* Lines 97-99: the prefixes of one trace not yet collected are appended.
RECURSIVE AddPrefixes(_, _, _)
AddPrefixes(prefixes, trace_prefixes, k) ==
    IF k > Len(trace_prefixes) THEN prefixes
    ELSE AddPrefixes(IF InPrefixes(trace_prefixes[k], prefixes)
                     THEN prefixes
                     ELSE Append(prefixes, trace_prefixes[k]),
                     trace_prefixes, k + 1)

\* Lines 92-99: the loop over the stored traces.
RECURSIVE CollectPrefixes(_, _, _)
CollectPrefixes(traces, i, prefixes) ==
    IF i > Len(traces) THEN prefixes
    ELSE CollectPrefixes(traces, i + 1,
                         AddPrefixes(prefixes, get_all_prefixes(traces[i]), 1))

\* Line 130: sum(trace.length for trace in log.trace_list).
RECURSIVE SumLengths(_, _)
SumLengths(traces, i) ==
    IF i > Len(traces) THEN 0
    ELSE TraceLength(traces[i]) + SumLengths(traces, i + 1)

\* Lines 132-134: the number of stored traces that contain the prefix.
RECURSIVE CountContaining(_, _, _)
CountContaining(traces, prefix, i) ==
    IF i > Len(traces) THEN 0
    ELSE (IF contains_prefix(traces[i], prefix) THEN 1 ELSE 0)
            + CountContaining(traces, prefix, i + 1)

\* _prefix_likelihood_estimator: numerator / denominator, kept as the two
\* integers (the division raises ZeroDivisionError on a zero denominator).
prefix_likelihood_estimator(traces, prefix) ==
    [prefix |-> prefix,
     numerator |-> CountContaining(traces, prefix, 1),
     denominator |-> SumLengths(traces, 1)]

\* The sign of -sum(p * log10(p)) over the terms p = n / D, computed exactly:
\* sum (n/D) * log(n/D) = (1/D) * log(prod n^n / D^(sum n)), so the entropy
\* is positive, zero or negative as prod n^n is below, equal to or above
\* D^(sum n).
RECURSIVE ProdPow(_, _)
ProdPow(terms, k) ==
    IF k > Len(terms) THEN 1
    ELSE Pow(terms[k].numerator, terms[k].numerator) * ProdPow(terms, k + 1)

RECURSIVE SumNum(_, _)
SumNum(terms, k) ==
    IF k > Len(terms) THEN 0 ELSE terms[k].numerator + SumNum(terms, k + 1)

EntropySign(terms) ==
    IF Len(terms) = 0 THEN 0
    ELSE LET P == ProdPow(terms, 1)
             Q == Pow(terms[1].denominator, SumNum(terms, 1))
         IN  IF P < Q THEN 1 ELSE IF P = Q THEN 0 ELSE -1

\* Lines 92-116.  The value returned is -sum(p * log10(p)) over the collected
\* prefixes in list order, kept as the list of terms and the exact sign.
\* p = n / 0 raises ZeroDivisionError and log10(0) raises ValueError.
compute_my_variability(traces) ==
    LET prefixes == CollectPrefixes(traces, 1, <<>>)
        terms == [k \in 1..Len(prefixes) |->
                     prefix_likelihood_estimator(traces, prefixes[k])]
    IN  IF \E k \in 1..Len(terms) : terms[k].denominator = 0
        THEN [outcome |-> "ZeroDivisionError", terms |-> terms, sign |-> 0]
        ELSE IF \E k \in 1..Len(terms) : terms[k].numerator = 0
        THEN [outcome |-> "ValueError", terms |-> terms, sign |-> 0]
        ELSE [outcome |-> "value", terms |-> terms,
              sign |-> EntropySign(terms)]

----------------------------------------------------------------------------
(* The program as a state machine: main.process_file builds a Log, calls   *)
(* load on the input, then calls size and the metrics on the loaded Log.   *)

\* No call has been made on the Log yet.
NoCall == [op |-> "none", arg |-> "none", res |-> "none"]

RECURSIVE SumLen(_, _)
SumLen(cases, i) ==
    IF i > Len(cases) THEN 0 ELSE Len(cases[i]) + SumLen(cases, i + 1)

\* Events consumed so far, over the complete cases and the current one.
TotalEvents == SumLen(input_log, 1) + Len(case)

\* Log.__init__ (empty dictionary and trace list) and the entry into load.
Init ==
    /\ dictionary = <<>>
    /\ trace_list = <<>>
    /\ events_list = <<>>
    /\ input_log = <<>>
    /\ case = <<>>
    /\ pc = "load"
    /\ ret = NoCall
    /\ lev_t1 = Trace(<<>>)
    /\ lev_t2 = Trace(<<>>)
    /\ lev_ret = -1

\* Log.load, lines 233-241: the next event of the current case has key_name.
\* The input is bounded to max_cases cases and max_events events.
LoadEventWithin(key_name, max_cases, max_events) ==
    /\ pc = "load"
    /\ Len(input_log) < max_cases
    /\ TotalEvents < max_events
    /\ LET s == LoadEventStep(dictionary, events_list, key_name)
       IN  /\ dictionary' = s.dictionary
           /\ events_list' = s.events_list
    /\ case' = Append(case, key_name)
    /\ UNCHANGED <<trace_list, input_log, pc, ret, levVars>>

LoadEvent(key_name) == LoadEventWithin(key_name, MaxCases, MaxEvents)

\* Log.load, lines 242-246, then line 231 of the next iteration: the current
\* case has no more events; its trace is stored and events_list is a new list.
LoadCaseEndWithin(max_cases) ==
    /\ pc = "load"
    /\ Len(input_log) < max_cases
    /\ trace_list' = StoreTrace(trace_list, events_list)
    /\ events_list' = <<>>
    /\ input_log' = Append(input_log, case)
    /\ case' = <<>>
    /\ UNCHANGED <<dictionary, pc, ret, levVars>>

LoadCaseEnd == LoadCaseEndWithin(MaxCases)

\* Log.load returns: input_log has no more cases.
LoadReturn ==
    /\ pc = "load"
    /\ case = <<>>
    /\ pc' = "loaded"
    /\ UNCHANGED <<logVars, ret, levVars>>

\* The record of a call on the loaded Log and of its outcome.
Returned(op, arg, res) == [op |-> op, arg |-> arg, res |-> res]

\* log.size (main.py line 69); the Log is only read.
CallSize ==
    /\ pc = "loaded"
    /\ ret' = Returned("size", "none", size(trace_list))
    /\ UNCHANGED <<logVars, pc, levVars>>

\* log.get_event(event_name), the public lookup; the Log is only read.
CallGetEvent(event_name) ==
    /\ pc = "loaded"
    /\ ret' = Returned("get_event", event_name,
                       get_event(dictionary, event_name))
    /\ UNCHANGED <<logVars, pc, levVars>>

\* compute_variant_variability(log) (main.py line 74)
CallVariant ==
    /\ pc = "loaded"
    /\ ret' = Returned("compute_variant_variability", "none",
                       compute_variant_variability(trace_list))
    /\ UNCHANGED <<logVars, pc, levVars>>

\* compute_edit_distance_variability(log) (main.py line 80)
CallEditDistance ==
    /\ pc = "loaded"
    /\ ret' = Returned("compute_edit_distance_variability", "none",
                       compute_edit_distance_variability(trace_list))
    /\ UNCHANGED <<logVars, pc, levVars>>

\* compute_my_variability(log) (main.py line 83)
CallMyVariability ==
    /\ pc = "loaded"
    /\ ret' = Returned("compute_my_variability", "none",
                       compute_my_variability(trace_list))
    /\ UNCHANGED <<logVars, pc, levVars>>

Next ==
    \/ \E key_name \in Names : LoadEvent(key_name)
    \/ LoadCaseEnd
    \/ LoadReturn
    \/ CallSize
    \/ \E event_name \in Names : CallGetEvent(event_name)
    \/ CallVariant
    \/ CallEditDistance
    \/ CallMyVariability

Spec == Init /\ [][Next]_vars

----------------------------------------------------------------------------
(* The same program on a smaller input, for the properties that reload the *)
(* input in every order.                                                   *)

OrderMaxCases == 3
OrderMaxEvents == 3

OrderLoadEvent(key_name) ==
    LoadEventWithin(key_name, OrderMaxCases, OrderMaxEvents)

OrderLoadCaseEnd == LoadCaseEndWithin(OrderMaxCases)

OrderNext ==
    \/ \E key_name \in Names : OrderLoadEvent(key_name)
    \/ OrderLoadCaseEnd
    \/ LoadReturn
    \/ CallVariant
    \/ CallEditDistance
    \/ CallMyVariability

SpecOrder == Init /\ [][OrderNext]_vars

----------------------------------------------------------------------------
(* _levenshtein_distance called on every pair of traces over a bounded     *)
(* alphabet, with the events coded as a Log codes them.                    *)

LevMaxLen == 3

LevKeys == <<"a", "b", "c">>
LevEvents == {Event(i - 1, LevKeys[i]) : i \in 1..Len(LevKeys)}
LevTraces == {Trace(el) : el \in SeqsUpTo(LevEvents, LevMaxLen)}

LevInit ==
    /\ lev_t1 \in LevTraces
    /\ lev_t2 \in LevTraces
    /\ lev_ret = -1
    /\ dictionary = <<>>
    /\ trace_list = <<>>
    /\ events_list = <<>>
    /\ input_log = <<>>
    /\ case = <<>>
    /\ pc = "lev"
    /\ ret = NoCall

LevCall ==
    /\ pc = "lev"
    /\ lev_ret = -1
    /\ lev_ret' = levenshtein_distance(lev_t1, lev_t2)
    /\ UNCHANGED <<logVars, pc, ret, lev_t1, lev_t2>>

LevNext == LevCall

SpecLev == LevInit /\ [][LevNext]_vars

----------------------------------------------------------------------------
(* Definitions used to state the properties, independent of the loops above *)

\* The names of a list of events.
NamesOf(el) == [k \in 1..Len(el) |-> el[k].event_name]

\* The sum of the frequencies, as the number of (entry, occurrence) pairs.
FrequencySum(tl) ==
    Cardinality(UNION {{<<i, k>> : k \in 1..tl[i].frequency} : i \in 1..Len(tl)})

\* The sum of the lengths, as the number of (entry, position) pairs.
LengthSum(tl) ==
    Cardinality(UNION {{<<i, k>> : k \in 1..Len(tl[i].event_list)} :
                       i \in 1..Len(tl)})

\* The event names consumed so far, in input order.
RECURSIVE Flatten(_, _)
Flatten(cases, i) ==
    IF i > Len(cases) THEN <<>> ELSE cases[i] \o Flatten(cases, i + 1)

Consumed == Flatten(input_log, 1) \o case

\* n occurs in the sequence c of names; the position of its first occurrence.
Occurs(c, n) == \E i \in 1..Len(c) : c[i] = n

FirstPos(c, n) ==
    CHOOSE i \in 1..Len(c) : c[i] = n /\ \A j \in 1..(i - 1) : c[j] # n

\* The number of distinct names first seen in c before n.
SeenBefore(c, n) ==
    Cardinality({m \in Names : Occurs(c, m) /\ FirstPos(c, m) < FirstPos(c, n)})

\* The entries of the store whose events carry exactly the names of c.
StoredAt(tl, c) == {i \in 1..Len(tl) : NamesOf(tl[i].event_list) = c}

\* l starts with p.
StartsWith(l, p) == Len(p) <= Len(l) /\ SubSeq(l, 1, Len(p)) = p

\* Every leading subsequence of length 0..len-1 of every stored trace.
ProperPrefixes(tl) ==
    UNION {{SubSeq(tl[i].event_list, 1, n) : n \in 0..(Len(tl[i].event_list) - 1)} :
           i \in 1..Len(tl)}

\* The permutations of 1..n and a sequence reordered by one.
Perms(n) == {p \in [1..n -> 1..n] : \A i, j \in 1..n : p[i] = p[j] => i = j}
PermsUpTo == [n \in 0..OrderMaxCases |-> Perms(n)]
Permute(s, p) == [i \in 1..Len(s) |-> s[p[i]]]

\* Two edit-distance outcomes are the same: the same fault, or equal quotients.
SameQuotient(r1, r2) ==
    /\ r1.outcome = r2.outcome
    /\ r1.outcome = "value" =>
         r1.distance * r2.number_of_comparisons
            = r2.distance * r1.number_of_comparisons

\* The terms of an entropy outcome with the prefixes given by name: the event
\* codes of a prefix depend on the order of registration, the names do not.
EntropyTerms(r) ==
    {[prefix |-> NamesOf(r.terms[k].prefix),
      numerator |-> r.terms[k].numerator,
      denominator |-> r.terms[k].denominator] : k \in 1..Len(r.terms)}

SameEntropy(r1, r2) ==
    /\ r1.outcome = r2.outcome
    /\ Len(r1.terms) = Len(r2.terms)
    /\ EntropyTerms(r1) = EntropyTerms(r2)
    /\ r1.sign = r2.sign

----------------------------------------------------------------------------
(* C1 *)

\* C1: after load has ingested any sequence of cases into an empty Log,
\* Log.size is the sum of the frequencies of the stored traces, and that sum
\* is the number of cases ingested.
C1_SizeIsCaseCount ==
    /\ FrequencySum(trace_list) = Len(input_log)
    /\ ret.op = "size" =>
         /\ ret.res = FrequencySum(trace_list)
         /\ ret.res = Len(input_log)

\* size was read on a log of three cases, one of them empty, one repeated.
C1_Witness ==
    /\ ret.op = "size"
    /\ ret.res = 3
    /\ Len(trace_list) = 2
    /\ \E i \in 1..Len(input_log) : input_log[i] = <<>>

----------------------------------------------------------------------------
(* C2 *)

C2_NoDuplicates ==
    \A i, j \in 1..Len(trace_list) :
        NamesOf(trace_list[i].event_list) = NamesOf(trace_list[j].event_list)
            => i = j

C2_CaseEndStep ==
    LoadCaseEnd =>
        IF StoredAt(trace_list, case) # {}
        THEN /\ Len(trace_list') = Len(trace_list)
             /\ \A i \in 1..Len(trace_list) :
                   /\ trace_list'[i].event_list = trace_list[i].event_list
                   /\ trace_list'[i].frequency =
                        trace_list[i].frequency
                          + (IF i \in StoredAt(trace_list, case) THEN 1 ELSE 0)
        ELSE /\ Len(trace_list') = Len(trace_list) + 1
             /\ SubSeq(trace_list', 1, Len(trace_list)) = trace_list
             /\ NamesOf(trace_list'[Len(trace_list')].event_list) = case
             /\ trace_list'[Len(trace_list')].frequency = 1

\* C2: in every state reached while load ingests cases, no two entries of
\* trace_list have the same event sequence; ending a case whose sequence is
\* stored keeps the number of entries and raises exactly that entry's
\* frequency by 1, ending an unseen one appends one entry of frequency 1.
C2_Dedup == [](C2_NoDuplicates) /\ [][C2_CaseEndStep]_vars

\* The same sequence was loaded twice, beside another one.
C2_Witness ==
    /\ Len(input_log) = 3
    /\ Len(trace_list) = 2
    /\ input_log[1] = input_log[3]
    /\ input_log[1] # <<>>
    /\ trace_list[1].frequency = 2
    /\ trace_list[2].frequency = 1

----------------------------------------------------------------------------
(* C3 *)

C3_CodesFirstSeen ==
    /\ LET c == Consumed
       IN  \A n \in Names :
             IF Occurs(c, n)
             THEN get_event(dictionary, n) =
                    [outcome |-> "value", val |-> Event(SeenBefore(c, n), n)]
             ELSE ~HasKey(dictionary, n)
    /\ \A i \in 1..Len(trace_list) :
         \A k \in 1..Len(trace_list[i].event_list) :
            LET e == trace_list[i].event_list[k]
            IN  get_event(dictionary, e.event_name).val = e
    /\ \A k \in 1..Len(events_list) :
         get_event(dictionary, events_list[k].event_name).val = events_list[k]

C3_CodeStable ==
    dictionary' # dictionary =>
        \A n \in Names :
            HasKey(dictionary, n) =>
                get_event(dictionary', n) = get_event(dictionary, n)

\* C3: across the ingestion the code get_event returns for a name never
\* changes once the name has been seen, the k-th distinct name seen has code
\* k-1, and every Event in a stored trace has the current code of its name.
C3_StableDenseCodes == [](C3_CodesFirstSeen) /\ [][C3_CodeStable]_vars

\* Three names were registered, the last one after a trace was stored, and a
\* registered name was seen again.
C3_Witness ==
    /\ Len(dictionary) = 3
    /\ Len(trace_list) >= 1
    /\ Len(events_list) >= 1
    /\ events_list[Len(events_list)].event_code = 2
    /\ \E i \in 1..Len(dictionary) : dictionary[i].value >= 2

----------------------------------------------------------------------------
(* C4 *)

\* The weighted distances from the first entry to the entries i..Len(tl).
RECURSIVE AnchorSum(_, _)
AnchorSum(tl, i) ==
    IF i > Len(tl) THEN 0
    ELSE levenshtein_distance(tl[1], tl[i]) * tl[1].frequency * tl[i].frequency
            + AnchorSum(tl, i + 1)

C4_Example ==
    compute_edit_distance_variability(
        load(<<<<"a">>, <<"a", "b">>, <<"a", "b", "c">>>>).trace_list)

\* C4: with at least two unique traces the edit-distance variability is the
\* sum over every stored trace t but the first, a, of
\* levenshtein(a, t) * frequency(a) * frequency(t), divided by the number of
\* unique traces minus 1; the cases [a], [a,b], [a,b,c] give 1.5.
C4_AnchorAverage ==
    /\ (ret.op = "compute_edit_distance_variability" /\ Len(trace_list) >= 2) =>
         /\ ret.res.outcome = "value"
         /\ ret.res.distance = AnchorSum(trace_list, 2)
         /\ ret.res.number_of_comparisons = Len(trace_list) - 1
    /\ C4_Example.outcome = "value"
    /\ 2 * C4_Example.distance = 3 * C4_Example.number_of_comparisons

\* The metric was computed on three unique traces and is 3/2.
C4_Witness ==
    /\ ret.op = "compute_edit_distance_variability"
    /\ Len(trace_list) = 3
    /\ ret.res.distance = 3
    /\ ret.res.number_of_comparisons = 2

----------------------------------------------------------------------------
(* C5 *)

\* C5: with at most one unique trace the edit-distance variability ends in a
\* defined "undefined metric" outcome, not in a division or indexing fault.
C5_UndefinedIsHandled ==
    (ret.op = "compute_edit_distance_variability" /\ Len(trace_list) <= 1) =>
        ret.res.outcome \notin {"IndexError", "ZeroDivisionError"}

----------------------------------------------------------------------------
(* C6 *)

\* C6: for every loaded Log the prefix entropy is a value >= 0, and it is 0
\* only when exactly one distinct prefix has nonzero likelihood.
C6_EntropyNonNegative ==
    ret.op = "compute_my_variability" =>
        /\ ret.res.outcome = "value"
        /\ ret.res.sign >= 0
        /\ ret.res.sign = 0 =>
             Cardinality({k \in 1..Len(ret.res.terms) :
                            ret.res.terms[k].numerator > 0}) = 1

----------------------------------------------------------------------------
(* C7 *)

\* The log a fresh Log holds after loading the consumed cases reordered by p.
Reloaded(p) == load(Permute(input_log, p)).trace_list

C7_VariantSame ==
    ret.op = "compute_variant_variability" =>
        \A p \in PermsUpTo[Len(input_log)] :
            compute_variant_variability(Reloaded(p)) = ret.res

C7_EntropySame ==
    ret.op = "compute_my_variability" =>
        \A p \in PermsUpTo[Len(input_log)] :
            SameEntropy(compute_my_variability(Reloaded(p)), ret.res)

C7_EditDistanceSame ==
    ret.op = "compute_edit_distance_variability" =>
        \A p \in PermsUpTo[Len(input_log)] :
            SameQuotient(compute_edit_distance_variability(Reloaded(p)), ret.res)

C7_EditDistanceSameAnchor ==
    ret.op = "compute_edit_distance_variability" =>
        \A p \in PermsUpTo[Len(input_log)] :
            (Len(input_log) > 0 => Permute(input_log, p)[1] = input_log[1])
                => SameQuotient(compute_edit_distance_variability(Reloaded(p)),
                                ret.res)

\* C7 as stated: for any two input sequences that are permutations of each
\* other the variant count, the edit-distance variability and the prefix
\* entropy are the same.
C7_OrderIndependent ==
    C7_VariantSame /\ C7_EditDistanceSame /\ C7_EntropySame

\* C7 as amended: the variant count and the prefix entropy (the same terms,
\* summed in another order) are the same for any two permutations; the
\* edit-distance variability is the same for two permutations that start
\* with the same event sequence.
C7_OrderIndependentGivenAnchor ==
    C7_VariantSame /\ C7_EditDistanceSameAnchor /\ C7_EntropySame

\* The edit-distance variability was computed on three cases with three
\* different sequences, which have reorderings that keep the first case.
C7_Witness ==
    /\ ret.op = "compute_edit_distance_variability"
    /\ ret.res.outcome = "value"
    /\ Len(input_log) = 3
    /\ Len(trace_list) = 3

----------------------------------------------------------------------------
(* C8 *)

\* The code a registered name has: its 0-based position among the keys.
HasCode(d, n, code) ==
    \E i \in 1..Len(d) : d[i].key = n /\ code = i - 1

C8_GetEventRegistersStep ==
    \A n \in Names :
        CallGetEvent(n) =>
            IF ~HasKey(dictionary, n)
            THEN /\ ret'.res =
                      [outcome |-> "value", val |-> Event(Len(dictionary), n)]
                 /\ get_keys_list(dictionary') =
                      Append(get_keys_list(dictionary), n)
            ELSE /\ ret'.res.outcome = "value"
                 /\ ret'.res.val.event_name = n
                 /\ HasCode(dictionary, n, ret'.res.val.event_code)
                 /\ dictionary' = dictionary

\* C8 as stated: get_event with a name that is not in the Symbol Table
\* registers it with the next sequential code and returns an Event with that
\* code and name; with a registered name it returns the existing code and
\* does not change the table.
C8_GetEventRegisters == [][C8_GetEventRegistersStep]_vars

C8_LookupStep ==
    \A n \in Names :
        /\ CallGetEvent(n) =>
             /\ dictionary' = dictionary
             /\ IF HasKey(dictionary, n)
                THEN /\ ret'.res.outcome = "value"
                     /\ ret'.res.val.event_name = n
                     /\ HasCode(dictionary, n, ret'.res.val.event_code)
                ELSE ret'.res.outcome = "ValueError"
        /\ LoadEvent(n) =>
             LET e == events_list'[Len(events_list')]
             IN  /\ e.event_name = n
                 /\ IF HasKey(dictionary, n)
                    THEN /\ get_keys_list(dictionary') = get_keys_list(dictionary)
                         /\ HasCode(dictionary, n, e.event_code)
                    ELSE /\ get_keys_list(dictionary') =
                              Append(get_keys_list(dictionary), n)
                         /\ e.event_code = Len(dictionary)

\* C8 as amended: get_event never changes the table; with a registered name
\* it returns an Event with the name and its existing code, with a name that
\* is not registered it raises ValueError.  A new name is registered by load
\* before load calls get_event, which then returns the next sequential code
\* (the number of names registered before).
C8_LookupOnly == [][C8_LookupStep]_vars

\* get_event was called with a name that is not in a non-empty table, after
\* load registered two names.
C8_Witness ==
    /\ ret.op = "get_event"
    /\ ret.res.outcome = "ValueError"
    /\ Len(dictionary) = 2

----------------------------------------------------------------------------
(* C9 *)

LevSeqs == SeqsUpTo(LevEvents, LevMaxLen)

\* The sequences one deletion, one substitution or one insertion away from s.
Deletions(s) ==
    {[j \in 1..(Len(s) - 1) |-> IF j < i THEN s[j] ELSE s[j + 1]] :
        i \in 1..Len(s)}

Substitutions(s) ==
    {[s EXCEPT ![i] = x] : i \in 1..Len(s), x \in LevEvents} \ {s}

Insertions(s) ==
    IF Len(s) >= LevMaxLen THEN {}
    ELSE {[j \in 1..(Len(s) + 1) |->
              IF j < i THEN s[j] ELSE IF j = i THEN x ELSE s[j - 1]] :
            i \in 1..(Len(s) + 1), x \in LevEvents}

OneEdit(s) == Deletions(s) \cup Substitutions(s) \cup Insertions(s)

\* The sequences at most k single edits away from s (an intermediate
\* sequence never needs to be longer than the longer of the two ends).
RECURSIVE WithinEdits(_, _)
WithinEdits(s, k) ==
    IF k = 0 THEN {s}
    ELSE LET W == WithinEdits(s, k - 1)
         IN  W \cup UNION {OneEdit(x) : x \in W}

EditBalls == [s \in LevSeqs |-> [k \in 0..LevMaxLen |-> WithinEdits(s, k)]]

\* The minimum number of single edits that turn s into t.
MinEdits(s, t) ==
    CHOOSE k \in 0..LevMaxLen :
        /\ t \in EditBalls[s][k]
        /\ \A j \in 0..(k - 1) : t \notin EditBalls[s][j]

\* C9: _levenshtein_distance(t1, t2) is the minimum number of single-event
\* insertions, deletions and substitutions that turn t1's event sequence
\* into t2's; it is 0 exactly on equal sequences and the same for (t2, t1).
C9_LevenshteinIsMinEdits ==
    lev_ret # -1 =>
        /\ lev_ret = MinEdits(lev_t1.event_list, lev_t2.event_list)
        /\ (lev_ret = 0) <=> (lev_t1.event_list = lev_t2.event_list)
        /\ lev_ret = levenshtein_distance(lev_t2, lev_t1)

\* The distance of a longer first trace to a shorter second one was
\* computed, one that takes deletions and a substitution.
C9_Witness ==
    /\ lev_ret = 3
    /\ Len(lev_t1.event_list) = 3
    /\ Len(lev_t2.event_list) = 1

----------------------------------------------------------------------------
(* C10 *)

C10_Example ==
    compute_my_variability(load(<<<<"a", "b">>, <<"a", "b">>>>).trace_list)

\* C10: the terms of compute_my_variability are one per distinct proper
\* prefix of the stored traces (lengths 0..len-1, the empty prefix included,
\* the full trace excluded), and the likelihood of a prefix is the number of
\* stored traces that start with it, unweighted, over the sum of the lengths
\* of the stored traces; [x,y],[x,y] gives {[], [x]}, each 1/2.
C10_PrefixTerms ==
    /\ ret.op = "compute_my_variability" =>
         LET terms == ret.res.terms
         IN  /\ ret.res.outcome = "value"
             /\ {terms[k].prefix : k \in 1..Len(terms)}
                   = ProperPrefixes(trace_list)
             /\ Len(terms) = Cardinality(ProperPrefixes(trace_list))
             /\ \A k \in 1..Len(terms) :
                   /\ terms[k].numerator =
                        Cardinality({i \in 1..Len(trace_list) :
                            StartsWith(trace_list[i].event_list, terms[k].prefix)})
                   /\ terms[k].denominator = LengthSum(trace_list)
    /\ EntropyTerms(C10_Example) =
         {[prefix |-> <<>>, numerator |-> 1, denominator |-> 2],
          [prefix |-> <<"a">>, numerator |-> 1, denominator |-> 2]}

\* The entropy was computed on a log with a repeated trace and a non-empty
\* prefix shared by two stored traces.
C10_Witness ==
    /\ ret.op = "compute_my_variability"
    /\ \E i \in 1..Len(trace_list) : trace_list[i].frequency = 2
    /\ \E k \in 1..Len(ret.res.terms) :
          /\ Len(ret.res.terms[k].prefix) = 1
          /\ ret.res.terms[k].numerator = 2

====
